---- MODULE Spec2Model ----
(***************************************************************************)
(* Model of the discussion moderation engine (DiscussionEngine): the       *)
(* dominance scorer, the phase state machine, its event handlers and the   *)
(* snapshot accessor.                                                      *)
(*                                                                         *)
(* Numbers are integers (seconds).  The dominance score is a float in the  *)
(* source; it is kept here exactly, as the pair num/den standing for       *)
(*     (n*max - total) / (n*total + n*1e-6)                                *)
(* which is (max - total/n) / (total + 1e-6) with n = |speakers|.          *)
(***************************************************************************)
EXTENDS Integers, Sequences, FiniteSets, TLC

VARIABLES
    state,        \* DiscussionEngine.state: the current phase
    ctx,          \* DiscussionEngine.ctx: the EngineContext record
    snapShared,   \* fields of the last snapshot() that are still the engine's own objects
    flagSince,    \* history: totalSeconds at which imbalanceFlag last became true (NullTime if false)
    roundHeld,    \* history: turn indices that have held the floor in the latest STRUCTURED round
    roundJump,    \* history: a SPEAKER_SET moved the turn forward past a speaker in that round
    removedIdle,  \* history: 0 none; 1 REMOVE_SPEAKER cleared the floor; 2 and a TICK followed
    lastChange,   \* history: the event type that caused the last phase change, and the phase left
    snap,         \* the value the last snapshot() returned, as its caller holds it
    ignored,      \* history: the type of the last event if it was inapplicable, else "none"
    overrides,    \* history: the thresholds argument the constructor was given
    tipCache,     \* geminiService.tipCache: cache key -> tip text
    tipCalls,     \* getModerationTip calls awaiting the upstream service
    tipOut,       \* how the last getModerationTip call to settle was settled
    removed,      \* history: names removed and not named by a SPEAKER_SET or ADD_SPEAKER since
    ui,           \* App: the tip shown, lastFetchedState, the debounce timer, the effect's deps
    events        \* number of events sent so far, where a specification bounds it

vars == <<state, ctx, snapShared, flagSince, roundHeld, roundJump, removedIdle, lastChange, snap,
          ignored, overrides, tipCache, tipCalls, tipOut, removed, ui, events>>

-----------------------------------------------------------------------------
(* Bounds and input sets *)

\* number of events in a run of the general specification
MaxEvents == 4

\* number of events in a run of the specification of structured rounds
MaxRoundEvents == 6

\* number of events in a run of the specification of the imbalance hold
MaxHoldEvents == 6

\* number of calls in a run of the specification of snapshot callers
MaxSnapEvents == 5

\* length up to which a snapshot caller grows a list it was given
MaxSnapLen == 3

\* the participants events may name
Names == {"A", "B"}

\* a third participant, used by the specification of structured rounds
RoundNames == {"A", "B", "C"}

\* seconds carried by TICK events in the general specification
TickSeconds == {5, 15, 20, 60}

\* seconds carried by SET_TALK_TIME events
TalkTimeInputs == {-5, 0, 30}

\* seconds carried by SET_SILENCE events
SilenceInputs == {-5, 10}

\* seconds carried by TICK events in the specification of the imbalance hold
HoldTicks == {5, 10, 15}

\* seconds carried by TICK events in the specification of structured rounds
RoundTicks == {20, 60}

\* number of events other than TICK in a run of the specification of the cycle
MaxLiveEvents == 3

\* totalSeconds up to which TICK events arrive in MONITORING in that specification
MaxMonitoringClock == 60

\* totalSeconds up to which TICK events arrive in the other phases: more than a
\* whole cycle of two turns takes when it starts at MaxMonitoringClock
MaxClock == 600

\* seconds carried by TICK events in the specification of the cycle
LiveTicks == {20, 60}

\* number of events in a run of the specification of long TICK events
MaxBurstEvents == 4

\* seconds carried by TICK events in that specification: more than one hold
\* time, and more than two turns
BurstTicks == {30, 150}

\* number of engine events in a run of the specification of the tip effect
MaxUiEvents == 3

\* number of events in a run of the specification of policy overrides
MaxPolicyEvents == 8

\* seconds carried by TICK events in the specification of policy overrides
PolicyTicks == {5, 15}

\* thresholds arguments given to the constructor
PolicyOverrides ==
    { [autoMode |-> TRUE],
      [imbalanceHoldSeconds |-> 30],
      [nudgeHoldSeconds |-> 5],
      [imbalanceHoldSeconds |-> 5, nudgeHoldSeconds |-> 30],
      [imbalanceScoreThreshold |-> [num |-> 3, den |-> 4]] }

\* number of steps in a run of the specification of the tip service
MaxTipEvents == 5

\* values of response.text the upstream service answers with ("<undefined>": none)
UpstreamTexts == {"tip", " tip two ", "  ", "<undefined>"}

\* what the upstream service throws: the message and status of the error
\* (message "<undefined>", status 0: the property is missing, or null was thrown)
UpstreamErrors ==
    { [message |-> "got status: 429 Too Many Requests", status |-> 0, thrown |-> TRUE],
      [message |-> "quota exceeded", status |-> 429, thrown |-> TRUE],
      [message |-> "fetch failed", status |-> 0, thrown |-> TRUE],
      [message |-> "internal error", status |-> 500, thrown |-> TRUE],
      [message |-> "<undefined>", status |-> 0, thrown |-> TRUE] }

\* seconds of silence before the round of the specification of timed rounds
MaxLead == 2

\* speaker lists of the specification of timed rounds
TurnSpeakers == {<<"A">>, <<"A", "B">>, <<"A", "B", "C">>}

\* speaker lists the dominance score is computed for
ScoreSpeakers == {<< >>, <<"A">>, <<"A", "B">>, <<"A", "B", "C">>}

\* talk times, in seconds, the dominance score is computed for
ScoreTalk == {0, 1, 2, 5, 30}

-----------------------------------------------------------------------------
(* Data model: types.ts *)

MONITORING == "monitoring"
IMBALANCE == "imbalanceDetected"
NUDGE == "nudge"
STRUCTURED == "structuredTurnTaking"
PAUSE == "reflectionPause"
CHECKIN == "checkIn"

DiscussionState == {MONITORING, IMBALANCE, NUDGE, STRUCTURED, PAUSE, CHECKIN}

\* null of `string | null` (activeSpeaker, quietSpeaker)
NoSpeaker == "<null>"

\* null of `number | null` (imbalanceSince, nudgeSince)
NullTime == -1

\* the value 0 of the dominance score
ZeroScore == [num |-> 0, den |-> 1]

\* default imbalanceScoreThreshold 0.35 = 7/20
DefaultThreshold == [num |-> 7, den |-> 20]

\* the grace period and the monologue limit of updateMetrics, in seconds
GraceSeconds == 15
MonologueLimit == 15

\* fixed holds of autoAdvanceIfNeeded, in seconds
ImbalanceStateHold == 15
PauseHold == 20
CheckinHold == 20

-----------------------------------------------------------------------------
(* Helpers for JS values *)

\* the truthiness of a `string | null`: null and the empty string are falsy
Truthy(name) == name # NoSpeaker /\ name # ""

\* talkTime[s] || 0
TalkOf(talkTime, s) == IF s \in DOMAIN talkTime THEN talkTime[s] ELSE 0

\* talkTime[s] !== undefined
HasKey(talkTime, s) == s \in DOMAIN talkTime

\* { ...talkTime, [s]: v }
WithKey(talkTime, s, v) ==
    [k \in (DOMAIN talkTime) \cup {s} |-> IF k = s THEN v ELSE talkTime[k]]

\* copy of talkTime after `delete talkTime[s]`
WithoutKey(talkTime, s) == [k \in (DOMAIN talkTime) \ {s} |-> talkTime[k]]

\* Math.max(a, b)
MathMax(a, b) == IF a >= b THEN a ELSE b

\* Math.max(...times); only used on non-empty sets
MaxOf(S) == CHOOSE x \in S : \A y \in S : y <= x

\* speakers.includes(s)
Includes(seq, s) == \E i \in 1..Len(seq) : seq[i] = s

\* seq.indexOf(s), 0-based, -1 when absent
IndexOf(seq, s) ==
    IF Includes(seq, s)
    THEN (CHOOSE i \in 1..Len(seq) : seq[i] = s /\ \A j \in 1..(i-1) : seq[j] # s) - 1
    ELSE -1

\* seq.filter(x => x !== s)
Filter(seq, s) == SelectSeq(seq, LAMBDA x : x # s)

\* seq[i] for a 0-based index i
At(seq, i) == seq[i + 1]

\* sum of the values of a talkTime object
RECURSIVE SumOver(_, _)
SumOver(talkTime, keys) ==
    IF keys = {} THEN 0
    ELSE LET k == CHOOSE x \in keys : TRUE
         IN talkTime[k] + SumOver(talkTime, keys \ {k})

SumTalk(talkTime) == SumOver(talkTime, DOMAIN talkTime)

SeqSet(seq) == {seq[i] : i \in 1..Len(seq)}

-----------------------------------------------------------------------------
(* Dominance scorer *)

\* calculateDominance that does not subtract the mean
calculateDominance_noMean(talkTime, speakers, totalTalkTime) ==
    IF Len(speakers) = 0 \/ totalTalkTime <= 0 THEN ZeroScore
    ELSE LET times == {TalkOf(talkTime, speakers[i]) : i \in 1..Len(speakers)}
             max == MaxOf(times)
             n == Len(speakers)
         IN IF max = 0 THEN ZeroScore
            ELSE [num |-> n * max, den |-> n * totalTalkTime]

calculateDominance(talkTime, speakers, totalTalkTime) ==
    IF Len(speakers) = 0 \/ totalTalkTime <= 0 THEN ZeroScore
    ELSE LET times == {TalkOf(talkTime, speakers[i]) : i \in 1..Len(speakers)}
             max == MaxOf(times)
             n == Len(speakers)
         IN IF n * max - totalTalkTime = 0 THEN ZeroScore
            ELSE [num |-> n * max - totalTalkTime, den |-> n * totalTalkTime]

\* score >= threshold, for score = num/(den + n*1e-6) and threshold = p/q:
\* q*num >= p*den + p*n*1e-6, and 0 < p*n*1e-6 < 1 between integers
ScoreAtLeast(score, threshold) ==
    IF score.num = 0 THEN threshold.num <= 0
    ELSE IF threshold.num <= 0 THEN score.num >= 0
    ELSE threshold.den * score.num > threshold.num * score.den

-----------------------------------------------------------------------------
(* Engine: construction *)

\* thresholds.key ?? default
Override(thresholds, key, default) ==
    IF key \in DOMAIN thresholds THEN thresholds[key] ELSE default

constructor(speakers, thresholds) ==
    [ speakers |-> speakers,
      activeSpeaker |-> NoSpeaker,
      quietSpeaker |-> NoSpeaker,
      talkTime |-> [s \in SeqSet(speakers) |-> 0],
      totalSeconds |-> 0,
      silenceSeconds |-> 0,
      totalTalkTime |-> 0,
      currentMonologueSeconds |-> 0,
      autoMode |-> Override(thresholds, "autoMode", TRUE),
      quietMode |-> FALSE,
      imbalanceScoreThreshold |-> Override(thresholds, "imbalanceScoreThreshold", DefaultThreshold),
      imbalanceHoldSeconds |-> 15,
      nudgeHoldSeconds |-> 15,
      turnHoldSeconds |-> 60,
      imbalanceSince |-> NullTime,
      nudgeSince |-> NullTime,
      stateSince |-> 0,
      turnSince |-> 0,
      turnOrder |-> << >>,
      turnIndex |-> 0,
      dominanceScore |-> ZeroScore,
      imbalanceFlag |-> FALSE ]

-----------------------------------------------------------------------------
(* Engine: private methods.  Each takes the phase st and the context c and  *)
(* returns the context, or the pair [state, ctx] when it may change phase. *)

\* updateMetrics without the grace period
updateMetrics_noGrace(st, c) ==
    LET score == calculateDominance(c.talkTime, c.speakers, c.totalTalkTime)
        isScoreImbalanced == ScoreAtLeast(score, c.imbalanceScoreThreshold)
        isMonologueImbalanced == c.currentMonologueSeconds >= MonologueLimit
    IN [c EXCEPT
          !.dominanceScore = score,
          !.imbalanceFlag =
              IF st \in {STRUCTURED, PAUSE, NUDGE, CHECKIN} \/ c.quietMode
              THEN FALSE
              ELSE isScoreImbalanced \/ isMonologueImbalanced]

updateMetrics(st, c) ==
    LET score == calculateDominance(c.talkTime, c.speakers, c.totalTalkTime)
        isGracePeriod == c.totalSeconds < GraceSeconds
        isScoreImbalanced == ScoreAtLeast(score, c.imbalanceScoreThreshold)
        isMonologueImbalanced == c.currentMonologueSeconds >= MonologueLimit
    IN [c EXCEPT
          !.dominanceScore = score,
          !.imbalanceFlag =
              IF \/ st \in {STRUCTURED, PAUSE, NUDGE, CHECKIN}
                 \/ c.quietMode
                 \/ isGracePeriod
              THEN FALSE
              ELSE isScoreImbalanced \/ isMonologueImbalanced]

\* enterMonitoring that resets whatever phase it is entered from
enterMonitoring_alwaysReset(prevState, c) ==
    [c EXCEPT !.totalSeconds = 0,
              !.totalTalkTime = 0,
              !.currentMonologueSeconds = 0,
              !.silenceSeconds = 0,
              !.imbalanceSince = NullTime,
              !.imbalanceFlag = FALSE,
              !.dominanceScore = ZeroScore,
              !.talkTime = [s \in SeqSet(c.speakers) |-> 0],
              !.activeSpeaker = NoSpeaker]

\* enterMonitoring that keeps the talk times on the reset
enterMonitoring_keepTalk(prevState, c) ==
    LET r == IF prevState = CHECKIN
             THEN [c EXCEPT !.totalSeconds = 0,
                            !.totalTalkTime = 0,
                            !.currentMonologueSeconds = 0,
                            !.silenceSeconds = 0,
                            !.imbalanceSince = NullTime,
                            !.imbalanceFlag = FALSE,
                            !.dominanceScore = ZeroScore]
             ELSE c
    IN [r EXCEPT !.activeSpeaker = NoSpeaker]

\* the entry effects of setState, by the phase entered
\* entering MONITORING that also forgets the quiet speaker
enterMonitoring_clearQuiet(prevState, c) ==
    LET r == IF prevState = CHECKIN
             THEN [c EXCEPT !.totalSeconds = 0,
                            !.totalTalkTime = 0,
                            !.currentMonologueSeconds = 0,
                            !.silenceSeconds = 0,
                            !.imbalanceSince = NullTime,
                            !.imbalanceFlag = FALSE,
                            !.dominanceScore = ZeroScore,
                            !.quietSpeaker = NoSpeaker,
                            !.talkTime = [s \in SeqSet(c.speakers) |-> 0]]
             ELSE c
    IN [r EXCEPT !.activeSpeaker = NoSpeaker]

enterMonitoring(prevState, c) ==
    LET r == IF prevState = CHECKIN
             THEN [c EXCEPT !.totalSeconds = 0,
                            !.totalTalkTime = 0,
                            !.currentMonologueSeconds = 0,
                            !.silenceSeconds = 0,
                            !.imbalanceSince = NullTime,
                            !.imbalanceFlag = FALSE,
                            !.dominanceScore = ZeroScore,
                            !.talkTime = [s \in SeqSet(c.speakers) |-> 0]]
             ELSE c
    IN [r EXCEPT !.activeSpeaker = NoSpeaker]

\* enterStructured that does not restart the turn clock
enterStructured_stale(c) ==
    [c EXCEPT !.turnOrder = c.speakers,
              !.turnIndex = 0,
              !.activeSpeaker = IF Len(c.speakers) > 0 /\ Truthy(c.speakers[1])
                               THEN c.speakers[1] ELSE NoSpeaker,
              !.currentMonologueSeconds = 0]

\* enterStructured that lets the monologue count run on
enterStructured_keepMonologue(c) ==
    [c EXCEPT !.turnOrder = c.speakers,
              !.turnIndex = 0,
              !.activeSpeaker = IF Len(c.speakers) > 0 /\ Truthy(c.speakers[1])
                               THEN c.speakers[1] ELSE NoSpeaker,
              !.turnSince = c.totalSeconds]

enterStructured(c) ==
    [c EXCEPT !.turnOrder = c.speakers,
              !.turnIndex = 0,
              !.activeSpeaker = IF Len(c.speakers) > 0 /\ Truthy(c.speakers[1])
                               THEN c.speakers[1] ELSE NoSpeaker,
              !.turnSince = c.totalSeconds,
              !.currentMonologueSeconds = 0]

\* enterPause that also restarts the clock
enterPause_resetClock(c) ==
    [c EXCEPT !.activeSpeaker = NoSpeaker,
              !.silenceSeconds = 0,
              !.currentMonologueSeconds = 0,
              !.totalSeconds = 0]

enterPause(c) ==
    [c EXCEPT !.activeSpeaker = NoSpeaker,
              !.silenceSeconds = 0,
              !.currentMonologueSeconds = 0]

enterCheckin(c) ==
    [c EXCEPT !.activeSpeaker = NoSpeaker,
              !.currentMonologueSeconds = 0]

\* setState that does not stamp stateSince
setState_noStamp(st, c, next) ==
    IF st = next THEN [state |-> st, ctx |-> c]
    ELSE LET entered == CASE next = MONITORING -> enterMonitoring(st, c)
                          [] next = STRUCTURED -> enterStructured(c)
                          [] next = PAUSE -> enterPause(c)
                          [] next = CHECKIN -> enterCheckin(c)
                          [] OTHER -> c
         IN [state |-> next, ctx |-> updateMetrics(next, entered)]

\* setState that runs the entry effects even if the phase is the current one
setState_always(st, c, next) ==
    LET entered == CASE next = MONITORING -> enterMonitoring(st, c)
                     [] next = STRUCTURED -> enterStructured(c)
                     [] next = PAUSE -> enterPause(c)
                     [] next = CHECKIN -> enterCheckin(c)
                     [] OTHER -> c
        stamped == [entered EXCEPT !.stateSince = entered.totalSeconds]
    IN [state |-> next, ctx |-> updateMetrics(next, stamped)]

setState(st, c, next) ==
    IF st = next THEN [state |-> st, ctx |-> c]
    ELSE LET entered == CASE next = MONITORING -> enterMonitoring(st, c)
                          [] next = STRUCTURED -> enterStructured(c)
                          [] next = PAUSE -> enterPause(c)
                          [] next = CHECKIN -> enterCheckin(c)
                          [] OTHER -> c
             stamped == [entered EXCEPT !.stateSince = entered.totalSeconds]
         IN [state |-> next, ctx |-> updateMetrics(next, stamped)]

\* nextTurn that ends the round one turn late
nextTurn_pastEnd(st, c) ==
    IF st # STRUCTURED THEN [state |-> st, ctx |-> c]
    ELSE LET inc == [c EXCEPT !.turnIndex = c.turnIndex + 1]
         IN IF inc.turnIndex > Len(inc.turnOrder)
            THEN setState(st, inc, PAUSE)
            ELSE [state |-> st,
                  ctx |-> [inc EXCEPT !.activeSpeaker =
                                          IF inc.turnIndex < Len(inc.turnOrder)
                                          THEN At(inc.turnOrder, inc.turnIndex)
                                          ELSE NoSpeaker,
                                      !.turnSince = inc.totalSeconds,
                                      !.currentMonologueSeconds = 0]]

\* nextTurn that does not restart the turn clock
nextTurn_keepTurnSince(st, c) ==
    IF st # STRUCTURED THEN [state |-> st, ctx |-> c]
    ELSE LET inc == [c EXCEPT !.turnIndex = c.turnIndex + 1]
         IN IF inc.turnIndex >= Len(inc.turnOrder)
            THEN setState(st, inc, PAUSE)
            ELSE [state |-> st,
                  ctx |-> [inc EXCEPT !.activeSpeaker = At(inc.turnOrder, inc.turnIndex),
                                      !.currentMonologueSeconds = 0]]

\* nextTurn that advances by two turns
nextTurn_skip(st, c) ==
    IF st # STRUCTURED THEN [state |-> st, ctx |-> c]
    ELSE LET inc == [c EXCEPT !.turnIndex = c.turnIndex + 2]
         IN IF inc.turnIndex >= Len(inc.turnOrder)
            THEN setState(st, inc, PAUSE)
            ELSE [state |-> st,
                  ctx |-> [inc EXCEPT !.activeSpeaker = At(inc.turnOrder, inc.turnIndex),
                                      !.turnSince = inc.totalSeconds,
                                      !.currentMonologueSeconds = 0]]

\* nextTurn that starts the round again after its last turn
nextTurn_wrap(st, c) ==
    IF st # STRUCTURED THEN [state |-> st, ctx |-> c]
    ELSE LET inc == [c EXCEPT !.turnIndex = c.turnIndex + 1]
             idx == IF inc.turnIndex >= Len(inc.turnOrder) THEN 0 ELSE inc.turnIndex
         IN [state |-> st,
             ctx |-> [inc EXCEPT !.turnIndex = idx,
                                 !.activeSpeaker = IF idx < Len(inc.turnOrder)
                                                   THEN At(inc.turnOrder, idx) ELSE NoSpeaker,
                                 !.turnSince = inc.totalSeconds,
                                 !.currentMonologueSeconds = 0]]

\* nextTurn that ends the round in CHECKIN
nextTurn_toCheckin(st, c) ==
    IF st # STRUCTURED THEN [state |-> st, ctx |-> c]
    ELSE LET inc == [c EXCEPT !.turnIndex = c.turnIndex + 1]
         IN IF inc.turnIndex >= Len(inc.turnOrder)
            THEN setState(st, inc, CHECKIN)
            ELSE [state |-> st,
                  ctx |-> [inc EXCEPT !.activeSpeaker = At(inc.turnOrder, inc.turnIndex),
                                      !.turnSince = inc.totalSeconds,
                                      !.currentMonologueSeconds = 0]]

nextTurn(st, c) ==
    IF st # STRUCTURED THEN [state |-> st, ctx |-> c]
    ELSE LET inc == [c EXCEPT !.turnIndex = c.turnIndex + 1]
         IN IF inc.turnIndex >= Len(inc.turnOrder)
            THEN setState(st, inc, PAUSE)
            ELSE [state |-> st,
                  ctx |-> [inc EXCEPT !.activeSpeaker = At(inc.turnOrder, inc.turnIndex),
                                      !.turnSince = inc.totalSeconds,
                                      !.currentMonologueSeconds = 0]]

\* advanceMonitoring that leaves the timer alone in quiet mode
advanceMonitoring_quietKeeps(st, c) ==
    LET now == c.totalSeconds
    IN IF c.quietMode THEN [state |-> st, ctx |-> c]
       ELSE IF c.imbalanceFlag
       THEN LET since == IF c.imbalanceSince = NullTime THEN now ELSE c.imbalanceSince
            IN IF now - since >= c.imbalanceHoldSeconds
               THEN setState(st, [c EXCEPT !.imbalanceSince = NullTime], IMBALANCE)
               ELSE [state |-> st, ctx |-> [c EXCEPT !.imbalanceSince = since]]
       ELSE [state |-> st, ctx |-> [c EXCEPT !.imbalanceSince = NullTime]]

\* advanceMonitoring that needs more than the hold time
advanceMonitoring_late(st, c) ==
    LET now == c.totalSeconds
    IN IF c.quietMode THEN [state |-> st, ctx |-> [c EXCEPT !.imbalanceSince = NullTime]]
       ELSE IF c.imbalanceFlag
       THEN LET since == IF c.imbalanceSince = NullTime THEN now ELSE c.imbalanceSince
            IN IF now - since > c.imbalanceHoldSeconds
               THEN setState(st, [c EXCEPT !.imbalanceSince = NullTime], IMBALANCE)
               ELSE [state |-> st, ctx |-> [c EXCEPT !.imbalanceSince = since]]
       ELSE [state |-> st, ctx |-> [c EXCEPT !.imbalanceSince = NullTime]]

\* case MONITORING of autoAdvanceIfNeeded
\* the MONITORING case that escalates as soon as the flag is up
advanceMonitoring_noHold(st, c) ==
    IF c.quietMode THEN [state |-> st, ctx |-> [c EXCEPT !.imbalanceSince = NullTime]]
    ELSE IF c.imbalanceFlag
    THEN setState(st, [c EXCEPT !.imbalanceSince = NullTime], IMBALANCE)
    ELSE [state |-> st, ctx |-> [c EXCEPT !.imbalanceSince = NullTime]]

advanceMonitoring(st, c) ==
    LET now == c.totalSeconds
    IN IF c.quietMode THEN [state |-> st, ctx |-> [c EXCEPT !.imbalanceSince = NullTime]]
       ELSE IF c.imbalanceFlag
       THEN LET since == IF c.imbalanceSince = NullTime THEN now ELSE c.imbalanceSince
            IN IF now - since >= c.imbalanceHoldSeconds
               THEN setState(st, [c EXCEPT !.imbalanceSince = NullTime], IMBALANCE)
               ELSE [state |-> st, ctx |-> [c EXCEPT !.imbalanceSince = since]]
       ELSE [state |-> st, ctx |-> [c EXCEPT !.imbalanceSince = NullTime]]

\* autoAdvanceIfNeeded that does not look at autoMode
autoAdvanceIfNeeded_always(st, c) ==
    LET now == c.totalSeconds
        same == [state |-> st, ctx |-> c]
    IN CASE st = MONITORING -> advanceMonitoring(st, c)
         [] st = IMBALANCE ->
               IF now - c.stateSince >= ImbalanceStateHold
               THEN setState(st, c, NUDGE) ELSE same
         [] st = NUDGE ->
               IF now - c.stateSince >= c.nudgeHoldSeconds
               THEN setState(st, c, STRUCTURED) ELSE same
         [] st = STRUCTURED ->
               IF Len(c.turnOrder) > 0 /\ now - c.turnSince >= c.turnHoldSeconds
               THEN nextTurn(st, c) ELSE same
         [] st = PAUSE ->
               IF now - c.stateSince >= PauseHold
               THEN setState(st, c, CHECKIN) ELSE same
         [] st = CHECKIN ->
               IF now - c.stateSince >= CheckinHold
               THEN setState(st, c, MONITORING) ELSE same

autoAdvanceIfNeeded(st, c) ==
    LET now == c.totalSeconds
        same == [state |-> st, ctx |-> c]
    IN IF ~c.autoMode THEN same
       ELSE CASE st = MONITORING -> advanceMonitoring(st, c)
              [] st = IMBALANCE ->
                    IF now - c.stateSince >= ImbalanceStateHold
                    THEN setState(st, c, NUDGE) ELSE same
              [] st = NUDGE ->
                    IF now - c.stateSince >= c.nudgeHoldSeconds
                    THEN setState(st, c, STRUCTURED) ELSE same
              [] st = STRUCTURED ->
                    IF Len(c.turnOrder) > 0 /\ now - c.turnSince >= c.turnHoldSeconds
                    THEN nextTurn(st, c) ELSE same
              [] st = PAUSE ->
                    IF now - c.stateSince >= PauseHold
                    THEN setState(st, c, CHECKIN) ELSE same
              [] st = CHECKIN ->
                    IF now - c.stateSince >= CheckinHold
                    THEN setState(st, c, MONITORING) ELSE same

-----------------------------------------------------------------------------
(* Engine: send(event), one operator per event type.  Each returns the     *)
(* pair [state, ctx] the engine holds when send returns.                   *)

sendSpeakerSet(st, c, name) ==
    LET c1 == IF c.activeSpeaker # name
              THEN [c EXCEPT !.currentMonologueSeconds = 0] ELSE c
        idx == IndexOf(c1.turnOrder, name)
    IN [state |-> st,
        ctx |-> IF st = STRUCTURED
                THEN IF idx # -1
                     THEN [c1 EXCEPT !.turnIndex = idx,
                                     !.activeSpeaker = name,
                                     !.turnSince = c1.totalSeconds]
                     ELSE c1
                ELSE [c1 EXCEPT !.activeSpeaker = name]]

sendSetQuietSpeaker(st, c, name) ==
    [state |-> st, ctx |-> [c EXCEPT !.quietSpeaker = name]]

sendSetAutoMode(st, c, enabled) ==
    [state |-> st, ctx |-> [c EXCEPT !.autoMode = enabled]]

\* SET_QUIET_MODE that does not recompute the metrics
sendSetQuietMode_noUpdate(st, c, enabled) ==
    [state |-> st, ctx |-> [c EXCEPT !.quietMode = enabled]]

sendSetQuietMode(st, c, enabled) ==
    [state |-> st, ctx |-> updateMetrics(st, [c EXCEPT !.quietMode = enabled])]

sendSilence(st, c) ==
    [state |-> st, ctx |-> [c EXCEPT !.activeSpeaker = NoSpeaker,
                                     !.currentMonologueSeconds = 0]]

\* tickElapse that credits whoever has the floor, speaker or not
tickElapse_anyone(c, dt) ==
    LET c1 == [c EXCEPT !.totalSeconds = c.totalSeconds + dt]
    IN IF c1.activeSpeaker # NoSpeaker
       THEN [c1 EXCEPT
               !.talkTime = WithKey(c1.talkTime, c1.activeSpeaker,
                                    TalkOf(c1.talkTime, c1.activeSpeaker) + dt),
               !.totalTalkTime = c1.totalTalkTime + dt,
               !.currentMonologueSeconds = c1.currentMonologueSeconds + dt,
               !.silenceSeconds = 0]
       ELSE [c1 EXCEPT !.silenceSeconds = c1.silenceSeconds + dt,
                       !.currentMonologueSeconds = 0]

\* the TICK case up to its call of updateMetrics
tickElapse(c, dt) ==
    LET c1 == [c EXCEPT !.totalSeconds = c.totalSeconds + dt]
    IN IF Truthy(c1.activeSpeaker) /\ HasKey(c1.talkTime, c1.activeSpeaker)
       THEN [c1 EXCEPT
               !.talkTime = WithKey(c1.talkTime, c1.activeSpeaker,
                                    TalkOf(c1.talkTime, c1.activeSpeaker) + dt),
               !.totalTalkTime = c1.totalTalkTime + dt,
               !.currentMonologueSeconds = c1.currentMonologueSeconds + dt,
               !.silenceSeconds = 0]
       ELSE [c1 EXCEPT !.silenceSeconds = c1.silenceSeconds + dt,
                       !.currentMonologueSeconds = 0]

\* TICK that advances first and credits the seconds to the floor it finds then
sendTick_creditAfter(st, c, dt) ==
    LET r == autoAdvanceIfNeeded(st, updateMetrics(st, [c EXCEPT !.totalSeconds = @ + dt]))
        credited == tickElapse([r.ctx EXCEPT !.totalSeconds = @ - dt], dt)
    IN [state |-> r.state, ctx |-> updateMetrics(r.state, credited)]

sendTick(st, c, dt) ==
    autoAdvanceIfNeeded(st, updateMetrics(st, tickElapse(c, dt)))

\* ADD_SPEAKER that does not recompute the metrics
sendAddSpeaker_noUpdate(st, c, name) ==
    [state |-> st,
     ctx |-> IF ~Includes(c.speakers, name)
             THEN [c EXCEPT !.speakers = Append(c.speakers, name),
                            !.talkTime = WithKey(c.talkTime, name, 0)]
             ELSE c]

\* ADD_SPEAKER that starts a known speaker again from zero
sendAddSpeaker_reset(st, c, name) ==
    [state |-> st,
     ctx |-> updateMetrics(st, [c EXCEPT !.speakers = Append(Filter(c.speakers, name), name),
                                         !.talkTime = WithKey(c.talkTime, name, 0)])]

sendAddSpeaker(st, c, name) ==
    [state |-> st,
     ctx |-> IF ~Includes(c.speakers, name)
             THEN updateMetrics(st, [c EXCEPT !.speakers = Append(c.speakers, name),
                                              !.talkTime = WithKey(c.talkTime, name, 0)])
             ELSE c]

\* REMOVE_SPEAKER that leaves totalTalkTime as it was
sendRemoveSpeaker_keepTotal(st, c, name) ==
    LET c1 == [c EXCEPT !.speakers = Filter(c.speakers, name),
                        !.talkTime = WithoutKey(c.talkTime, name)]
        c2 == IF c1.activeSpeaker = name
              THEN [c1 EXCEPT !.activeSpeaker = NoSpeaker,
                              !.currentMonologueSeconds = 0]
              ELSE c1
        c3 == IF c2.quietSpeaker = name
              THEN [c2 EXCEPT !.quietSpeaker = NoSpeaker] ELSE c2
    IN [state |-> st, ctx |-> updateMetrics(st, c3)]

\* REMOVE_SPEAKER that leaves the floor to the removed speaker
sendRemoveSpeaker_keepActive(st, c, name) ==
    LET removedTime == TalkOf(c.talkTime, name)
        c1 == [c EXCEPT !.speakers = Filter(c.speakers, name),
                        !.talkTime = WithoutKey(c.talkTime, name),
                        !.totalTalkTime = MathMax(0, c.totalTalkTime - removedTime)]
        c3 == IF c1.quietSpeaker = name
              THEN [c1 EXCEPT !.quietSpeaker = NoSpeaker] ELSE c1
    IN [state |-> st, ctx |-> updateMetrics(st, c3)]

\* REMOVE_SPEAKER that also takes the speaker out of the round
sendRemoveSpeaker_fromRound(st, c, name) ==
    LET removedTime == TalkOf(c.talkTime, name)
        c1 == [c EXCEPT !.speakers = Filter(c.speakers, name),
                        !.turnOrder = Filter(c.turnOrder, name),
                        !.talkTime = WithoutKey(c.talkTime, name),
                        !.totalTalkTime = MathMax(0, c.totalTalkTime - removedTime)]
        c2 == IF c1.activeSpeaker = name
              THEN [c1 EXCEPT !.activeSpeaker = NoSpeaker,
                              !.currentMonologueSeconds = 0]
              ELSE c1
        c3 == IF c2.quietSpeaker = name
              THEN [c2 EXCEPT !.quietSpeaker = NoSpeaker] ELSE c2
    IN [state |-> st, ctx |-> updateMetrics(st, c3)]

sendRemoveSpeaker(st, c, name) ==
    LET removedTime == TalkOf(c.talkTime, name)
        c1 == [c EXCEPT !.speakers = Filter(c.speakers, name),
                        !.talkTime = WithoutKey(c.talkTime, name),
                        !.totalTalkTime = MathMax(0, c.totalTalkTime - removedTime)]
        c2 == IF c1.activeSpeaker = name
              THEN [c1 EXCEPT !.activeSpeaker = NoSpeaker,
                              !.currentMonologueSeconds = 0]
              ELSE c1
        c3 == IF c2.quietSpeaker = name
              THEN [c2 EXCEPT !.quietSpeaker = NoSpeaker] ELSE c2
    IN [state |-> st, ctx |-> updateMetrics(st, c3)]

\* SET_TALK_TIME that gives an unknown name a talk time
sendSetTalkTime_create(st, c, name, seconds) ==
    [state |-> st,
     ctx |-> LET oldVal == TalkOf(c.talkTime, name)
             IN updateMetrics(st,
                  [c EXCEPT !.talkTime = WithKey(c.talkTime, name, MathMax(0, seconds)),
                            !.totalTalkTime = c.totalTalkTime - oldVal + MathMax(0, seconds)])]

sendSetTalkTime(st, c, name, seconds) ==
    [state |-> st,
     ctx |-> IF HasKey(c.talkTime, name)
             THEN LET oldVal == c.talkTime[name]
                  IN updateMetrics(st,
                       [c EXCEPT !.talkTime = WithKey(c.talkTime, name, MathMax(0, seconds)),
                                 !.totalTalkTime = c.totalTalkTime - oldVal + MathMax(0, seconds)])
             ELSE c]

\* SET_SILENCE that stores the seconds as given
sendSetSilence_raw(st, c, seconds) ==
    [state |-> st,
     ctx |-> updateMetrics(st, [c EXCEPT !.silenceSeconds = seconds])]

sendSetSilence(st, c, seconds) ==
    [state |-> st,
     ctx |-> updateMetrics(st, [c EXCEPT !.silenceSeconds = MathMax(0, seconds)])]

sendForceState(st, c, next) == setState(st, c, next)

sendNextTurn(st, c) == nextTurn(st, c)

\* the event types of DiscussionEvent that the switch of send has no case for
ReservedEvents == {"TURNS_COMPLETE", "PAUSE_DONE", "CHECKIN"}

sendReserved(st, c, kind) == [state |-> st, ctx |-> c]

\* snapshot(): { state, context: { ...ctx } } copies the scalar fields and
\* shares the three nested objects with the engine
SharedFields == {"speakers", "talkTime", "turnOrder"}

\* before the first snapshot() call
NoSnapshot == [state |-> "none"]

snapshot(st, c) == [state |-> st, context |-> c]

\* the nested objects a handler replaced by new ones (the others it kept)
Reassigned(kind, st, c, r, name) ==
    (IF r.state # st /\ r.state = STRUCTURED THEN {"turnOrder"} ELSE {})
    \cup (IF st = CHECKIN /\ r.state = MONITORING THEN {"talkTime"} ELSE {})
    \cup (CASE kind = "TICK" ->
                 IF Truthy(c.activeSpeaker) /\ HasKey(c.talkTime, c.activeSpeaker)
                 THEN {"talkTime"} ELSE {}
            [] kind = "ADD_SPEAKER" ->
                 IF ~Includes(c.speakers, name) THEN {"speakers", "talkTime"} ELSE {}
            [] kind = "REMOVE_SPEAKER" -> {"speakers", "talkTime"}
            [] kind = "SET_TALK_TIME" ->
                 IF HasKey(c.talkTime, name) THEN {"talkTime"} ELSE {}
            [] OTHER -> {})

-----------------------------------------------------------------------------
(* Tip service: geminiService.ts *)

\* the canned tips; the names stand for the Hebrew string literals
IMBALANCE_TEXT == "IMBALANCE_TEXT"
NUDGE_TEXT == "NUDGE_TEXT"
STRUCTURED_TEXT == "STRUCTURED_TEXT"
PAUSE_TEXT == "PAUSE_TEXT"
CHECKIN_TEXT == "CHECKIN_TEXT"

\* the string returned for an empty response and for a failure other than 429
FallbackTip == "FALLBACK_TEXT"

\* the string returned when the upstream call fails with a rate limit
RateLimitTip == "RATE_LIMIT_TEXT"

\* undefined, for response.text and error.message
Undefined == "<undefined>"

\* undefined, for error.status
NoStatus == 0

\* s.includes('429')
Includes429(s) == \E i \in 1..(Len(s) - 2) : SubSeq(s, i, i + 2) = "429"

\* s.trim(), for the blank character
RECURSIVE Trim(_)
Trim(s) ==
    IF Len(s) = 0 THEN s
    ELSE IF SubSeq(s, 1, 1) = " " THEN Trim(SubSeq(s, 2, Len(s)))
    ELSE IF SubSeq(s, Len(s), Len(s)) = " " THEN Trim(SubSeq(s, 1, Len(s) - 1))
    ELSE s

\* `${state}-${context.speakers.length}`
cacheKey(st, c) == <<st, Len(c.speakers)>>

\* tipCache[key], undefined or empty being falsy
Cached(cache, key) == key \in DOMAIN cache /\ cache[key] # ""

\* no call has settled yet
NoTip == [kind |-> "none"]

\* a call for phase st settled with text; upstream: the service was called for
\* it; error: what the service threw, if it did
Resolved(st, text, upstream, error) ==
    [kind |-> "resolved", state |-> st, text |-> text, upstream |-> upstream, error |-> error]

Rejected(st, error) ==
    [kind |-> "rejected", state |-> st, text |-> Undefined, upstream |-> TRUE, error |-> error]

NoError == [message |-> Undefined, status |-> NoStatus, thrown |-> FALSE]

\* getModerationTip up to its first return or to the await: the result, or
\* the call left waiting
tipStart(st, c, cache) ==
    CASE st = IMBALANCE -> [done |-> TRUE, out |-> Resolved(st, IMBALANCE_TEXT, FALSE, NoError)]
      [] st = NUDGE -> [done |-> TRUE, out |-> Resolved(st, NUDGE_TEXT, FALSE, NoError)]
      [] st = STRUCTURED -> [done |-> TRUE, out |-> Resolved(st, STRUCTURED_TEXT, FALSE, NoError)]
      [] st = PAUSE -> [done |-> TRUE, out |-> Resolved(st, PAUSE_TEXT, FALSE, NoError)]
      [] st = CHECKIN -> [done |-> TRUE, out |-> Resolved(st, CHECKIN_TEXT, FALSE, NoError)]
      [] OTHER ->
            IF Cached(cache, cacheKey(st, c))
            THEN [done |-> TRUE, out |-> Resolved(st, cache[cacheKey(st, c)], FALSE, NoError)]
            ELSE [done |-> FALSE, call |-> [state |-> st, key |-> cacheKey(st, c)]]

\* response.text?.trim() || fallback
tipText(text) ==
    IF text = Undefined THEN FallbackTip
    ELSE IF Trim(text) = "" THEN FallbackTip
    ELSE Trim(text)

\* the catch block that lets a failure other than a rate limit through
tipCatch_rethrow(st, error) ==
    IF \/ error.message # Undefined /\ Includes429(error.message)
       \/ error.status = 429
    THEN Resolved(st, RateLimitTip, TRUE, error)
    ELSE Rejected(st, error)

\* the catch block
tipCatch(st, error) ==
    IF \/ error.message # Undefined /\ Includes429(error.message)
       \/ error.status = 429
    THEN Resolved(st, RateLimitTip, TRUE, error)
    ELSE Resolved(st, FallbackTip, TRUE, error)

-----------------------------------------------------------------------------
(* The tip effect of App: App.tsx *)

\* no state key: the initial lastFetchedState, no timer pending, no effect run yet
NoKey == <<"none", 0>>

\* `${snap.state}-${snap.context.speakers.length}`
stateKey(st, c) == <<st, Len(c.speakers)>>

\* the tip shown before any fetch completes; key: the state key it was fetched for
WaitingTip == [text |-> "WAITING_TEXT", key |-> NoKey]

\* the component's state when it mounts, before its effects run
UiMounted ==
    [moderationTip |-> WaitingTip,
     lastFetchedState |-> NoKey,
     fetchTipDebounced |-> NoKey,
     deps |-> NoKey]

\* the continuation of the timer callback after the await
tipShown(u, text, key) ==
    [u EXCEPT !.moderationTip = [text |-> text, key |-> key],
              !.lastFetchedState = key]

-----------------------------------------------------------------------------
(* History variables *)

\* the turn index holding the floor in context c, if any
Holder(st, c) ==
    IF /\ st = STRUCTURED
       /\ c.activeSpeaker # NoSpeaker
       /\ c.turnIndex < Len(c.turnOrder)
       /\ At(c.turnOrder, c.turnIndex) = c.activeSpeaker
    THEN {c.turnIndex} ELSE {}

\* an event of type kind naming name is one the engine has no use for in (st, c)
Inapplicable(st, c, kind, name) ==
    \/ kind = "SET_TALK_TIME" /\ ~Includes(c.speakers, name)
    \/ kind = "NEXT_TURN" /\ st # STRUCTURED
    \/ kind = "SPEAKER_SET" /\ st = STRUCTURED /\ ~Includes(c.turnOrder, name)
    \/ kind = "FORCE_STATE" /\ name = st
    \/ kind \in ReservedEvents

\* the engine moves to r = [state, ctx] by an event of type kind naming name
Commit(r, kind, name) ==
    /\ state' = r.state
    /\ ctx' = r.ctx
    /\ snapShared' = snapShared \ Reassigned(kind, state, ctx, r, name)
    /\ flagSince' = IF r.ctx.imbalanceFlag
                    THEN IF ctx.imbalanceFlag THEN flagSince ELSE r.ctx.totalSeconds
                    ELSE NullTime
    /\ roundHeld' = IF r.state # STRUCTURED THEN roundHeld
                    ELSE IF state # STRUCTURED THEN Holder(r.state, r.ctx)
                    ELSE roundHeld \cup Holder(r.state, r.ctx)
    /\ roundJump' = IF r.state # STRUCTURED THEN roundJump
                    ELSE IF state # STRUCTURED THEN FALSE
                    ELSE roundJump \/ (kind = "SPEAKER_SET" /\ r.ctx.turnIndex > ctx.turnIndex + 1)
    /\ removedIdle' = IF kind = "REMOVE_SPEAKER" /\ ctx.activeSpeaker = name THEN 1
                      ELSE IF r.ctx.activeSpeaker # NoSpeaker THEN 0
                      ELSE IF removedIdle >= 1 /\ kind = "TICK" THEN 2
                      ELSE removedIdle
    /\ lastChange' = IF r.state # state THEN [type |-> kind, from |-> state] ELSE lastChange
    /\ snap' = snap
    /\ ignored' = IF Inapplicable(state, ctx, kind, name) THEN kind ELSE "none"
    /\ overrides' = overrides
    /\ removed' = IF kind = "REMOVE_SPEAKER" THEN removed \cup {name}
                  ELSE IF kind \in {"SPEAKER_SET", "ADD_SPEAKER"} THEN removed \ {name}
                  ELSE removed
    /\ UNCHANGED <<tipCache, tipCalls, tipOut, ui>>

-----------------------------------------------------------------------------
(* Actions: one per event type *)

SpeakerSet(name) == Commit(sendSpeakerSet(state, ctx, name), "SPEAKER_SET", name)

SetQuietSpeaker(name) == Commit(sendSetQuietSpeaker(state, ctx, name), "SET_QUIET_SPEAKER", name)

SetAutoMode(enabled) == Commit(sendSetAutoMode(state, ctx, enabled), "SET_AUTO_MODE", NoSpeaker)

SetQuietMode(enabled) == Commit(sendSetQuietMode(state, ctx, enabled), "SET_QUIET_MODE", NoSpeaker)

Silence == Commit(sendSilence(state, ctx), "SILENCE", NoSpeaker)

Tick(dt) == Commit(sendTick(state, ctx, dt), "TICK", NoSpeaker)

AddSpeaker(name) == Commit(sendAddSpeaker(state, ctx, name), "ADD_SPEAKER", name)

RemoveSpeaker(name) == Commit(sendRemoveSpeaker(state, ctx, name), "REMOVE_SPEAKER", name)

SetTalkTime(name, seconds) ==
    Commit(sendSetTalkTime(state, ctx, name, seconds), "SET_TALK_TIME", name)

SetSilence(seconds) == Commit(sendSetSilence(state, ctx, seconds), "SET_SILENCE", NoSpeaker)

ForceState(next) == Commit(sendForceState(state, ctx, next), "FORCE_STATE", next)

NextTurn == Commit(sendNextTurn(state, ctx), "NEXT_TURN", NoSpeaker)

Reserved(kind) == Commit(sendReserved(state, ctx, kind), kind, NoSpeaker)

\* what no engine event changes
EngineHistory ==
    <<flagSince, roundHeld, roundJump, removedIdle, lastChange, ignored, overrides,
      tipCache, tipCalls, tipOut, removed, ui>>

Snapshot ==
    /\ snap' = snapshot(state, ctx)
    /\ snapShared' = SharedFields
    /\ UNCHANGED <<state, ctx, EngineHistory>>

\* A caller of snapshot() changes the value it was given.  A nested object
\* that is still the engine's own changes for the engine too.
SnapPushSpeaker(name) ==
    /\ snap # NoSnapshot
    /\ Len(snap.context.speakers) < MaxSnapLen
    /\ snap' = [snap EXCEPT !.context.speakers = Append(@, name)]
    /\ ctx' = IF "speakers" \in snapShared
              THEN [ctx EXCEPT !.speakers = Append(@, name)] ELSE ctx
    /\ UNCHANGED <<state, snapShared, EngineHistory>>

SnapPushTurn(name) ==
    /\ snap # NoSnapshot
    /\ Len(snap.context.turnOrder) < MaxSnapLen
    /\ snap' = [snap EXCEPT !.context.turnOrder = Append(@, name)]
    /\ ctx' = IF "turnOrder" \in snapShared
              THEN [ctx EXCEPT !.turnOrder = Append(@, name)] ELSE ctx
    /\ UNCHANGED <<state, snapShared, EngineHistory>>

SnapSetTalkTime(name, seconds) ==
    /\ snap # NoSnapshot
    /\ snap' = [snap EXCEPT !.context.talkTime = WithKey(@, name, seconds)]
    /\ ctx' = IF "talkTime" \in snapShared
              THEN [ctx EXCEPT !.talkTime = WithKey(@, name, seconds)] ELSE ctx
    /\ UNCHANGED <<state, snapShared, EngineHistory>>

SnapSetActive(name) ==
    /\ snap # NoSnapshot
    /\ snap' = [snap EXCEPT !.context.activeSpeaker = name]
    /\ UNCHANGED <<state, ctx, snapShared, EngineHistory>>

\* any change a caller makes to a snapshot it holds
SnapMutation ==
    \/ \E name \in Names : SnapPushSpeaker(name)
    \/ \E name \in Names : SnapPushTurn(name)
    \/ \E name \in Names : SnapSetTalkTime(name, 30)
    \/ \E name \in Names : SnapSetActive(name)

-----------------------------------------------------------------------------
(* Actions of the tip service *)

\* what no step of the tip service changes
TipFrame == <<state, ctx, snap, snapShared, flagSince, roundHeld, roundJump, removedIdle,
              lastChange, ignored, overrides, removed>>

\* getModerationTip(st, c) runs to its first return or to the await
tipBegin(st, c) ==
    LET r == tipStart(st, c, tipCache)
    IN /\ IF r.done
          THEN tipOut' = r.out /\ tipCalls' = tipCalls
          ELSE tipOut' = tipOut /\ tipCalls' = tipCalls \cup {r.call}
       /\ UNCHANGED <<tipCache, TipFrame>>

\* the try block after the await: the waiting call is answered with response.text = text
tipResolve(call, text) ==
    /\ call \in tipCalls
    /\ tipCache' = WithKey(tipCache, call.key, tipText(text))
    /\ tipOut' = Resolved(call.state, tipText(text), TRUE, NoError)
    /\ tipCalls' = tipCalls \ {call}
    /\ UNCHANGED TipFrame

\* the await throws error in the waiting call
tipReject(call, error) ==
    /\ call \in tipCalls
    /\ tipOut' = tipCatch(call.state, error)
    /\ tipCalls' = tipCalls \ {call}
    /\ UNCHANGED <<tipCache, TipFrame>>

\* getModerationTip(state, context) is called with the engine's phase and context
TipCall == tipBegin(state, ctx) /\ UNCHANGED ui

\* the upstream service answers a waiting call with response.text = text
TipResponse(call, text) == tipResolve(call, text) /\ UNCHANGED ui

\* the upstream service fails a waiting call with error
TipFailure(call, error) == tipReject(call, error) /\ UNCHANGED ui

\* any step of the tip service
TipStep ==
    \/ TipCall
    \/ \E call \in tipCalls, text \in UpstreamTexts : TipResponse(call, text)
    \/ \E call \in tipCalls, error \in UpstreamErrors : TipFailure(call, error)

-----------------------------------------------------------------------------
(* Actions of the tip effect of App *)

\* The effect runs after a render in which the phase or the number of
\* speakers changed, and once when the component mounts: the cleanup of its
\* last run clears the timer that run started, and it starts a new timer
\* unless it returns early.
TipEffect ==
    LET key == stateKey(state, ctx)
    IN /\ ui.deps # key
       /\ ui' = [ui EXCEPT !.deps = key,
                           !.fetchTipDebounced =
                               IF Len(ctx.speakers) = 0 \/ ui.lastFetchedState = key
                               THEN NoKey ELSE key]
       /\ UNCHANGED <<tipCache, tipCalls, tipOut, TipFrame>>

\* The debounce timer expires, the effects of the last render having run:
\* its callback calls getModerationTip, which returns at once or waits for
\* the upstream service.
FetchTipDebounced ==
    LET key == ui.fetchTipDebounced
        r == tipStart(key[1], ctx, tipCache)
        cleared == [ui EXCEPT !.fetchTipDebounced = NoKey]
    IN /\ key # NoKey
       /\ ui.deps = stateKey(state, ctx)
       /\ tipBegin(key[1], ctx)
       /\ ui' = IF r.done THEN tipShown(cleared, r.out.text, key) ELSE cleared

\* the upstream service answers a waiting call and the callback goes on
TipFetched(call, text) ==
    /\ tipResolve(call, text)
    /\ ui' = tipShown(ui, tipText(text), call.key)

\* the upstream service fails a waiting call and the callback goes on with
\* the string the catch block returns
TipFetchFailed(call, error) ==
    /\ tipReject(call, error)
    /\ ui' = tipShown(ui, tipCatch(call.state, error).text, call.key)

-----------------------------------------------------------------------------
(* General specification: every sequence of at most MaxEvents events *)

\* speaker lists the engine is constructed with
InitSpeakers == {<< >>, <<"A", "B">>}

\* the state after new DiscussionEngine(speakers, thresholds)
Constructed(speakers, thresholds) ==
    /\ state = MONITORING
    /\ ctx = constructor(speakers, thresholds)
    /\ overrides = thresholds
    /\ snapShared = {}
    /\ flagSince = NullTime
    /\ roundHeld = {}
    /\ roundJump = FALSE
    /\ removedIdle = 0
    /\ lastChange = [type |-> "none", from |-> MONITORING]
    /\ snap = NoSnapshot
    /\ ignored = "none"
    /\ tipCache = << >>
    /\ tipCalls = {}
    /\ tipOut = NoTip
    /\ removed = {}
    /\ ui = UiMounted
    /\ events = 0

InitWith(speakers, autoMode) == Constructed(speakers, [autoMode |-> autoMode])

\* one more event of a run of at most k events
Counted(k) == events < k /\ events' = events + 1

Init == \E speakers \in InitSpeakers, autoMode \in BOOLEAN : InitWith(speakers, autoMode)

Next ==
    \/ \E name \in Names : Counted(MaxEvents) /\ SpeakerSet(name)
    \/ \E name \in Names \cup {NoSpeaker} : Counted(MaxEvents) /\ SetQuietSpeaker(name)
    \/ \E enabled \in BOOLEAN : Counted(MaxEvents) /\ SetAutoMode(enabled)
    \/ \E enabled \in BOOLEAN : Counted(MaxEvents) /\ SetQuietMode(enabled)
    \/ Counted(MaxEvents) /\ Silence
    \/ \E dt \in TickSeconds : Counted(MaxEvents) /\ Tick(dt)
    \/ \E name \in Names : Counted(MaxEvents) /\ AddSpeaker(name)
    \/ \E name \in Names : Counted(MaxEvents) /\ RemoveSpeaker(name)
    \/ \E name \in Names, seconds \in TalkTimeInputs :
          Counted(MaxEvents) /\ SetTalkTime(name, seconds)
    \/ \E seconds \in SilenceInputs : Counted(MaxEvents) /\ SetSilence(seconds)
    \/ \E next \in DiscussionState : Counted(MaxEvents) /\ ForceState(next)
    \/ Counted(MaxEvents) /\ NextTurn
    \/ \E kind \in ReservedEvents : Counted(MaxEvents) /\ Reserved(kind)

Spec == Init /\ [][Next]_vars

-----------------------------------------------------------------------------
(* Escalation scenario: speakers A and B, A takes the floor at time 0 and  *)
(* then only TICK{1} events arrive.                                        *)

Uncounted == UNCHANGED events

EscInit == InitWith(<<"A", "B">>, TRUE)

EscStarted == ctx.activeSpeaker # NoSpeaker \/ ctx.totalSeconds > 0

EscSpeakerSet == ~EscStarted /\ Uncounted /\ SpeakerSet("A")

EscTick == EscStarted /\ Uncounted /\ Tick(1)

EscNext == EscSpeakerSet \/ EscTick

SpecEsc == EscInit /\ [][EscNext]_vars

-----------------------------------------------------------------------------
(* Structured rounds of three speakers: SPEAKER_SET, NEXT_TURN, TICK and   *)
(* FORCE_STATE in any order.                                               *)

RoundInit == \E autoMode \in BOOLEAN : InitWith(<<"A", "B", "C">>, autoMode)

RoundNext ==
    \/ \E name \in RoundNames : Counted(MaxRoundEvents) /\ SpeakerSet(name)
    \/ \E dt \in RoundTicks : Counted(MaxRoundEvents) /\ Tick(dt)
    \/ \E next \in DiscussionState : Counted(MaxRoundEvents) /\ ForceState(next)
    \/ Counted(MaxRoundEvents) /\ NextTurn

SpecRound == RoundInit /\ [][RoundNext]_vars

-----------------------------------------------------------------------------
(* The imbalance hold of MONITORING: the events that raise and lower the   *)
(* imbalance flag, in any order.                                           *)

HoldInit == InitWith(<<"A", "B">>, TRUE)

HoldNext ==
    \/ Counted(MaxHoldEvents) /\ SpeakerSet("A")
    \/ \E dt \in HoldTicks : Counted(MaxHoldEvents) /\ Tick(dt)
    \/ \E enabled \in BOOLEAN : Counted(MaxHoldEvents) /\ SetQuietMode(enabled)
    \/ \E enabled \in BOOLEAN : Counted(MaxHoldEvents) /\ SetAutoMode(enabled)
    \/ \E seconds \in TalkTimeInputs : Counted(MaxHoldEvents) /\ SetTalkTime("A", seconds)
    \/ \E next \in DiscussionState : Counted(MaxHoldEvents) /\ ForceState(next)

SpecHold == HoldInit /\ [][HoldNext]_vars

-----------------------------------------------------------------------------
(* Callers of snapshot(): the engine's events interleaved with snapshot()  *)
(* calls and with changes the callers make to the values they were given.  *)

SnapNext ==
    \/ Counted(MaxSnapEvents) /\ Snapshot
    \/ Counted(MaxSnapEvents) /\ SnapMutation
    \/ \E name \in Names : Counted(MaxSnapEvents) /\ SpeakerSet(name)
    \/ \E name \in Names : Counted(MaxSnapEvents) /\ AddSpeaker(name)
    \/ \E name \in Names : Counted(MaxSnapEvents) /\ RemoveSpeaker(name)
    \/ \E dt \in TickSeconds : Counted(MaxSnapEvents) /\ Tick(dt)
    \/ Counted(MaxSnapEvents) /\ ForceState(STRUCTURED)
    \/ Counted(MaxSnapEvents) /\ NextTurn

SpecSnap == Init /\ [][SnapNext]_vars

-----------------------------------------------------------------------------
(* Policy overrides: the engine is constructed with a thresholds argument,  *)
(* A takes the floor and TICK events arrive.                               *)

PolicyInit == \E thresholds \in PolicyOverrides : Constructed(<<"A", "B">>, thresholds)

PolicyNext ==
    \/ Counted(MaxPolicyEvents) /\ SpeakerSet("A")
    \/ \E dt \in PolicyTicks : Counted(MaxPolicyEvents) /\ Tick(dt)

SpecPolicy == PolicyInit /\ [][PolicyNext]_vars

-----------------------------------------------------------------------------
(* The dominance score over speaker lists and talk times: SET_TALK_TIME      *)
(* sets each speaker's talk time and updateMetrics applies                  *)
(* calculateDominance to the result.                                        *)

ScoreInit == \E speakers \in ScoreSpeakers : InitWith(speakers, TRUE)

ScoreNext ==
    \E name \in RoundNames, seconds \in ScoreTalk : Uncounted /\ SetTalkTime(name, seconds)

SpecScore == ScoreInit /\ [][ScoreNext]_vars

-----------------------------------------------------------------------------
(* The tip service called between engine events that change the phase and   *)
(* the number of speakers.                                                  *)

TipNext ==
    \/ Counted(MaxTipEvents) /\ TipCall
    \/ \E call \in tipCalls, text \in UpstreamTexts :
          Counted(MaxTipEvents) /\ TipResponse(call, text)
    \/ \E call \in tipCalls, error \in UpstreamErrors :
          Counted(MaxTipEvents) /\ TipFailure(call, error)
    \/ \E next \in DiscussionState : Counted(MaxTipEvents) /\ ForceState(next)
    \/ \E name \in Names : Counted(MaxTipEvents) /\ AddSpeaker(name)

SpecTip == Init /\ [][TipNext]_vars

-----------------------------------------------------------------------------
(* The cycle under TICK events: autoMode is on; before the clock starts (and *)
(* again after each reset) a few other events set the scene, and TICK events *)
(* keep arriving for as long as the engine is outside MONITORING.            *)

LiveInit == \E speakers \in InitSpeakers : InitWith(speakers, TRUE)

\* an event other than TICK, sent while the clock is at 0
LiveScene ==
    /\ ctx.totalSeconds = 0
    /\ Counted(MaxLiveEvents)
    /\ \/ \E name \in Names : SpeakerSet(name)
       \/ \E name \in Names : AddSpeaker(name)
       \/ \E name \in Names : RemoveSpeaker(name)
       \/ \E next \in DiscussionState : ForceState(next)

\* the clock has not reached the end of the run
ClockOpen == ctx.totalSeconds < (IF state = MONITORING THEN MaxMonitoringClock ELSE MaxClock)

\* a TICK event, the three steps of its case taken one after the other: the
\* seconds are added, updateMetrics runs, autoAdvanceIfNeeded runs
LiveTick ==
    /\ ClockOpen
    /\ Uncounted
    /\ \E dt \in LiveTicks :
          \E elapsed \in {tickElapse(ctx, dt)} :
             \E measured \in {updateMetrics(state, elapsed)} :
                \E r \in {autoAdvanceIfNeeded(state, measured)} :
                   Commit(r, "TICK", NoSpeaker)

LiveNext == LiveScene \/ LiveTick

\* the interval of App.tsx keeps sending TICK events
SpecLive == LiveInit /\ [][LiveNext]_vars /\ WF_vars(LiveTick)

-----------------------------------------------------------------------------
(* Long TICK events: three speakers, and TICK events that carry more seconds *)
(* than a phase or a turn is held for.                                       *)

BurstNext ==
    \/ \E name \in RoundNames : Counted(MaxBurstEvents) /\ SpeakerSet(name)
    \/ \E dt \in BurstTicks : Counted(MaxBurstEvents) /\ Tick(dt)
    \/ \E next \in DiscussionState : Counted(MaxBurstEvents) /\ ForceState(next)
    \/ Counted(MaxBurstEvents) /\ Silence

SpecBurst == RoundInit /\ [][BurstNext]_vars

-----------------------------------------------------------------------------
(* The tip effect: App starts with no speakers; events that change the phase *)
(* or the number of speakers arrive between the runs of the effect, the      *)
(* expiries of its timer and the answers of the upstream service.            *)

UiInit == InitWith(<< >>, TRUE)

UiNext ==
    \/ Uncounted /\ TipEffect
    \/ Uncounted /\ FetchTipDebounced
    \/ \E call \in tipCalls, text \in UpstreamTexts : Uncounted /\ TipFetched(call, text)
    \/ \E call \in tipCalls, error \in UpstreamErrors : Uncounted /\ TipFetchFailed(call, error)
    \/ \E next \in DiscussionState : Counted(MaxUiEvents) /\ ForceState(next)
    \/ \E name \in Names : Counted(MaxUiEvents) /\ AddSpeaker(name)
    \/ \E name \in Names : Counted(MaxUiEvents) /\ RemoveSpeaker(name)

SpecUi == UiInit /\ [][UiNext]_vars

-----------------------------------------------------------------------------
(* Timed rounds: autoMode is on, a round is entered after a few seconds of  *)
(* silence and then only TICK{1} events arrive, until the engine is back in *)
(* MONITORING.                                                              *)

TurnInit == \E speakers \in TurnSpeakers : InitWith(speakers, TRUE)

\* no round has been entered yet
BeforeRound == state = MONITORING /\ lastChange.type = "none"

TurnLead == BeforeRound /\ ctx.totalSeconds < MaxLead /\ Uncounted /\ Tick(1)

TurnEnter == BeforeRound /\ Uncounted /\ ForceState(STRUCTURED)

TurnTick == state # MONITORING /\ Uncounted /\ Tick(1)

TurnNext == TurnLead \/ TurnEnter \/ TurnTick

SpecTurn == TurnInit /\ [][TurnNext]_vars

-----------------------------------------------------------------------------
(* Properties *)

\* the sum of talkTime[s] over the speakers
SpeakerTalkSum(c) ==
    SumOver([s \in SeqSet(c.speakers) |-> TalkOf(c.talkTime, s)], SeqSet(c.speakers))

\* C1: in every reachable state totalTalkTime equals the sum of talkTime[s]
\* over all speakers (and over all keys of talkTime).
C1_TotalIsSum ==
    /\ ctx.totalTalkTime = SpeakerTalkSum(ctx)
    /\ ctx.totalTalkTime = SumTalk(ctx.talkTime)

\* a speaker was removed while talk time was on the books
C1_Witness ==
    /\ Len(ctx.speakers) = 1
    /\ ctx.totalTalkTime > 0
    /\ \E s \in Names : ~HasKey(ctx.talkTime, s)

\* C2 as stated: while the phase is STRUCTURED, 0 <= turnIndex < length(turnOrder)
\* and activeSpeaker = turnOrder[turnIndex].
C2_TurnIndexAndActive ==
    state = STRUCTURED =>
        /\ 0 <= ctx.turnIndex
        /\ ctx.turnIndex < Len(ctx.turnOrder)
        /\ ctx.activeSpeaker = At(ctx.turnOrder, ctx.turnIndex)

\* C2 amended: while the phase is STRUCTURED, 0 <= turnIndex; turnIndex is below
\* length(turnOrder) unless turnOrder is empty, and then turnIndex = 0 and nobody
\* has the floor; activeSpeaker is null or turnOrder[turnIndex].
C2_TurnIndexOrSilent ==
    state = STRUCTURED =>
        /\ 0 <= ctx.turnIndex
        /\ IF Len(ctx.turnOrder) = 0
           THEN ctx.turnIndex = 0 /\ ctx.activeSpeaker = NoSpeaker
           ELSE /\ ctx.turnIndex < Len(ctx.turnOrder)
                /\ ctx.activeSpeaker \in {NoSpeaker, At(ctx.turnOrder, ctx.turnIndex)}

\* a round in which the floor was cleared in the second speaker's turn
C2_Witness ==
    /\ state = STRUCTURED
    /\ ctx.turnIndex = 1
    /\ Len(ctx.turnOrder) = 2
    /\ ctx.activeSpeaker = NoSpeaker

\* C3: no change a caller makes to a value snapshot() returned changes the
\* state the engine uses.
C3_SnapshotIndependent == [][SnapMutation => UNCHANGED <<state, ctx>>]_vars

\* C4: with speakers A and B, A speaking from time 0 and TICK{1} events only, the
\* phase is MONITORING up to totalSeconds = 29, IMBALANCE from 30, NUDGE from 45
\* and STRUCTURED at 60.
C4_Escalation ==
    /\ ctx.totalSeconds < 30 => state = MONITORING
    /\ (30 <= ctx.totalSeconds /\ ctx.totalSeconds < 45) => state = IMBALANCE
    /\ (45 <= ctx.totalSeconds /\ ctx.totalSeconds < 60) => state = NUDGE
    /\ ctx.totalSeconds = 60 => state = STRUCTURED

\* the tick reaching 60 seconds has moved the phase from NUDGE to STRUCTURED
C4_Witness ==
    /\ state = STRUCTURED
    /\ ctx.totalSeconds = 60
    /\ ctx.stateSince = 60
    /\ lastChange = [type |-> "TICK", from |-> NUDGE]

\* C5: in every reachable state with totalSeconds < 15 the imbalance flag is
\* false, whatever the dominance score and the monologue length.
C5_GracePeriod == ctx.totalSeconds < GraceSeconds => ~ctx.imbalanceFlag

\* within the grace period, with a dominance score above the threshold in a
\* phase that does not suppress the flag
C5_Witness ==
    /\ 0 < ctx.totalSeconds
    /\ ctx.totalSeconds < GraceSeconds
    /\ state \in {MONITORING, IMBALANCE}
    /\ ~ctx.quietMode
    /\ ScoreAtLeast(ctx.dominanceScore, ctx.imbalanceScoreThreshold)

\* C6: a TICK moves the phase from MONITORING to IMBALANCE only if the imbalance
\* flag has been true in every state over the preceding imbalanceHoldSeconds of
\* the totalSeconds clock.
C6_HeldContinuously ==
    [][(state = MONITORING /\ state' = IMBALANCE /\ \E dt \in HoldTicks : Tick(dt))
          => /\ flagSince # NullTime
             /\ ctx'.totalSeconds - flagSince >= ctx.imbalanceHoldSeconds]_vars

\* C7: NEXT_TURN in a round at turn k-1 of n, k < n, keeps the phase and gives
\* turnIndex = k, activeSpeaker = turnOrder[k], turnSince = totalSeconds and
\* currentMonologueSeconds = 0; at the last turn it changes the phase to PAUSE
\* with nobody holding the floor.
C7_NextTurn ==
    [][(state = STRUCTURED /\ NextTurn) =>
          IF ctx.turnIndex + 1 < Len(ctx.turnOrder)
          THEN /\ state' = STRUCTURED
               /\ ctx'.turnIndex = ctx.turnIndex + 1
               /\ ctx'.activeSpeaker = At(ctx.turnOrder, ctx.turnIndex + 1)
               /\ ctx'.turnSince = ctx'.totalSeconds
               /\ ctx'.currentMonologueSeconds = 0
          ELSE /\ state' = PAUSE
               /\ ctx'.activeSpeaker = NoSpeaker]_vars

\* two NEXT_TURNs have ended a round of two speakers
C7_Witness ==
    /\ state = PAUSE
    /\ lastChange = [type |-> "NEXT_TURN", from |-> STRUCTURED]
    /\ Len(ctx.turnOrder) = 2
    /\ ctx.turnIndex = 2
    /\ roundHeld = {0, 1}

\* the phase is PAUSE and was reached from a round by a turn advance
RoundEndedByAdvance ==
    /\ state = PAUSE
    /\ lastChange.from = STRUCTURED
    /\ lastChange.type \in {"NEXT_TURN", "TICK"}

AllTurns == 0 .. (Len(ctx.turnOrder) - 1)

\* C8 as stated: a round ends by a turn advance only after every speaker of
\* turnOrder has held the floor in that round.
C8_EveryoneHeldFloor == RoundEndedByAdvance => roundHeld = AllTurns

\* C8 amended: in a round in which no SPEAKER_SET moved the turn forward by more
\* than one position, the speakers who have held the floor are a prefix of
\* turnOrder, and the round ends by a turn advance only after all of them have.
C8_EveryoneUnlessSkipped ==
    /\ (state = STRUCTURED /\ ~roundJump) =>
           \E k \in 0 .. Len(ctx.turnOrder) : roundHeld = 0 .. (k - 1)
    /\ (RoundEndedByAdvance /\ ~roundJump) => roundHeld = AllTurns

\* a round of three ended by a turn advance with no speaker skipped
C8_Witness ==
    /\ RoundEndedByAdvance
    /\ ~roundJump
    /\ Len(ctx.turnOrder) = 3
    /\ roundHeld = {0, 1, 2}

\* REMOVE_SPEAKER(name) clears the quiet and the active speaker when it names them
RemoveClears ==
    \A name \in Names :
        RemoveSpeaker(name) =>
            /\ ctx.quietSpeaker = name => ctx'.quietSpeaker = NoSpeaker
            /\ ctx.activeSpeaker = name => ctx'.activeSpeaker = NoSpeaker

\* a TICK(dt) counted as silence
CountsAsSilence(dt) ==
    /\ ctx'.silenceSeconds = ctx.silenceSeconds + dt
    /\ ctx'.talkTime = ctx.talkTime
    /\ ctx'.totalTalkTime = ctx.totalTalkTime

\* C9 as stated: REMOVE_SPEAKER clears the quiet and the active speaker, and
\* every later TICK(s), until a speaker has the floor again, counts as silence.
C9_RemoveThenSilence ==
    [][/\ RemoveClears
       /\ \A dt \in TickSeconds :
             (removedIdle >= 1 /\ Tick(dt)) => CountsAsSilence(dt)]_vars

\* C9 amended: as stated, unless the TICK itself makes the engine enter PAUSE
\* (silenceSeconds is then 0) or re-enter MONITORING from CHECKIN (the counters
\* and the talk times are then 0).
C9_RemoveThenSilenceUnlessReset ==
    [][/\ RemoveClears
       /\ \A dt \in TickSeconds :
             (removedIdle >= 1 /\ Tick(dt)) =>
                 /\ ctx'.activeSpeaker = NoSpeaker \/ state' = STRUCTURED
                 /\ CASE state # PAUSE /\ state' = PAUSE ->
                           /\ ctx'.silenceSeconds = 0
                           /\ ctx'.talkTime = ctx.talkTime
                           /\ ctx'.totalTalkTime = ctx.totalTalkTime
                      [] state = CHECKIN /\ state' = MONITORING ->
                           /\ ctx'.silenceSeconds = 0
                           /\ ctx'.totalTalkTime = 0
                           /\ \A s \in DOMAIN ctx'.talkTime : ctx'.talkTime[s] = 0
                      [] OTHER -> CountsAsSilence(dt)]_vars

\* the active speaker was removed and a TICK has since counted as silence
C9_Witness ==
    /\ removedIdle = 2
    /\ ctx.activeSpeaker = NoSpeaker
    /\ ctx.silenceSeconds > 0
    /\ ctx.totalTalkTime > 0

\* C10: whenever the phase changes from CHECKIN to MONITORING the talk times,
\* the clock, the counters and the derived metrics are zero, imbalanceSince is
\* null, stateSince is 0 and the speakers are unchanged.
C10_CheckinReset ==
    [][(state = CHECKIN /\ state' = MONITORING) =>
          /\ \A s \in SeqSet(ctx'.speakers) :
                HasKey(ctx'.talkTime, s) /\ ctx'.talkTime[s] = 0
          /\ ctx'.totalTalkTime = 0
          /\ ctx'.totalSeconds = 0
          /\ ctx'.silenceSeconds = 0
          /\ ctx'.currentMonologueSeconds = 0
          /\ ctx'.imbalanceSince = NullTime
          /\ ~ctx'.imbalanceFlag
          /\ ctx'.dominanceScore = ZeroScore
          /\ ctx'.stateSince = 0
          /\ ctx'.speakers = ctx.speakers]_vars

\* the 20 s of CHECKIN have elapsed and the engine is back in MONITORING
C10_Witness ==
    /\ state = MONITORING
    /\ lastChange = [type |-> "TICK", from |-> CHECKIN]
    /\ Len(ctx.speakers) = 2
    /\ ctx.totalSeconds = 0
    /\ ctx.totalTalkTime = 0

\* the fields of the context other than activeSpeaker, stateSince and the
\* derived metrics dominanceScore and imbalanceFlag
KeptFields ==
    {"speakers", "quietSpeaker", "talkTime", "totalSeconds", "silenceSeconds",
     "totalTalkTime", "currentMonologueSeconds", "autoMode", "quietMode",
     "imbalanceScoreThreshold", "imbalanceHoldSeconds", "nudgeHoldSeconds",
     "turnHoldSeconds", "imbalanceSince", "nudgeSince", "turnSince",
     "turnOrder", "turnIndex"}

C12_InapplicableIgnored ==
    [][/\ \A name \in Names, seconds \in TalkTimeInputs :
             (~Includes(ctx.speakers, name) /\ SetTalkTime(name, seconds))
                 => UNCHANGED <<state, ctx>>
       /\ (state # STRUCTURED /\ NextTurn) => UNCHANGED <<state, ctx>>
       /\ \A kind \in ReservedEvents : Reserved(kind) => UNCHANGED <<state, ctx>>]_vars

\* a SET_TALK_TIME naming a removed speaker has just been ignored, with talk
\* time on the books
C12_Witness ==
    /\ ignored = "SET_TALK_TIME"
    /\ Len(ctx.speakers) = 1
    /\ ctx.totalTalkTime > 0

\* C13: in STRUCTURED, SPEAKER_SET(name) with name absent from turnOrder leaves
\* the phase and every context field, currentMonologueSeconds included, unchanged.
C13_UnknownSpeakerIgnored ==
    [][\A name \in Names :
          (state = STRUCTURED /\ ~Includes(ctx.turnOrder, name) /\ SpeakerSet(name))
              => UNCHANGED <<state, ctx>>]_vars

\* the rule of the imbalance flag, applied to the phase st and the context c
FlagRule(st, c) ==
    IF \/ st \in {STRUCTURED, PAUSE, NUDGE, CHECKIN}
       \/ c.quietMode
       \/ c.totalSeconds < 15
    THEN FALSE
    ELSE \/ ScoreAtLeast(c.dominanceScore, c.imbalanceScoreThreshold)
         \/ c.currentMonologueSeconds >= 15

\* C14: after every event, SPEAKER_SET and SILENCE included, imbalanceFlag equals
\* the rule applied to the state the event left: false in STRUCTURED, PAUSE, NUDGE
\* and CHECKIN, in quiet mode and before 15 s; otherwise score >= threshold or
\* currentMonologueSeconds >= 15.
C14_FlagFollowsRule == ctx.imbalanceFlag = FlagRule(state, ctx)

\* C15: in every reachable state, if the phase is STRUCTURED, PAUSE, NUDGE or
\* CHECKIN, or quietMode is true, then imbalanceFlag is false.
C15_FlagSuppressed ==
    (state \in {STRUCTURED, PAUSE, NUDGE, CHECKIN} \/ ctx.quietMode) => ~ctx.imbalanceFlag

\* quiet mode is on in MONITORING, past the grace period, with a dominance
\* score above the threshold
C15_Witness ==
    /\ ctx.quietMode
    /\ state = MONITORING
    /\ ctx.totalSeconds >= GraceSeconds
    /\ ScoreAtLeast(ctx.dominanceScore, ctx.imbalanceScoreThreshold)
    /\ ~ctx.imbalanceFlag

\* the largest talk time of a speaker of context c (speakers not empty)
MaxTalk(c) == MaxOf({TalkOf(c.talkTime, c.speakers[i]) : i \in 1..Len(c.speakers)})

C17_OverridesFollowed ==
    /\ ctx.imbalanceScoreThreshold = Override(overrides, "imbalanceScoreThreshold", DefaultThreshold)
    /\ ctx.imbalanceHoldSeconds = Override(overrides, "imbalanceHoldSeconds", 15)
    /\ ctx.nudgeHoldSeconds = Override(overrides, "nudgeHoldSeconds", 15)
    /\ ctx.turnHoldSeconds = 60
    /\ state = NUDGE =>
           ctx.totalSeconds - ctx.stateSince < Override(overrides, "nudgeHoldSeconds", 15)

\* C18 as stated: no event makes totalSeconds smaller than it was before the
\* event (TICK seconds are not negative).
C18_ClockMonotone == [][ctx'.totalSeconds >= ctx.totalSeconds]_vars

\* C18 amended: no event makes totalSeconds smaller, except an event that moves
\* the phase from CHECKIN to MONITORING, which sets it to 0.
C18_ClockMonotoneUnlessReset ==
    [][\/ ctx'.totalSeconds >= ctx.totalSeconds
       \/ state = CHECKIN /\ state' = MONITORING /\ ctx'.totalSeconds = 0]_vars

\* the clock was restarted by the tick that ended CHECKIN and has advanced again
C18_Witness ==
    /\ state = MONITORING
    /\ lastChange = [type |-> "TICK", from |-> CHECKIN]
    /\ ctx.stateSince = 0
    /\ ctx.totalSeconds = 5

\* C19: in every reachable state the key set of talkTime is exactly the set of
\* speakers.
C19_KeysAreSpeakers == DOMAIN ctx.talkTime = SeqSet(ctx.speakers)

\* a name that is not a speaker has the floor and a TICK has elapsed
C19_Witness ==
    /\ ctx.activeSpeaker # NoSpeaker
    /\ ~Includes(ctx.speakers, ctx.activeSpeaker)
    /\ Len(ctx.speakers) = 1
    /\ ctx.silenceSeconds > 0
    /\ ctx.totalSeconds > 0

\* C20: while autoMode is false a TICK changes neither the phase, nor turnIndex,
\* nor imbalanceSince, and every phase change is made by FORCE_STATE or NEXT_TURN.
C20_NoAdvanceWithoutAuto ==
    [][~ctx.autoMode =>
          /\ \A dt \in TickSeconds :
                 Tick(dt) => /\ state' = state
                             /\ ctx'.turnIndex = ctx.turnIndex
                             /\ ctx'.imbalanceSince = ctx.imbalanceSince
          /\ state' # state => lastChange'.type \in {"FORCE_STATE", "NEXT_TURN"}]_vars

\* autoMode is off and the engine is still in PAUSE with its 20 s hold elapsed
C20_Witness ==
    /\ ~ctx.autoMode
    /\ state = PAUSE
    /\ ctx.totalSeconds - ctx.stateSince >= PauseHold

\* C21: FORCE_STATE(STRUCTURED) from any other phase, with autoMode true or
\* false, and the TICK that leaves NUDGE both give turnOrder = the speakers,
\* turnIndex = 0, activeSpeaker = the first speaker (null when there are none),
\* turnSince = stateSince = totalSeconds and currentMonologueSeconds = 0.
C21_StructuredEntry ==
    [][(state # STRUCTURED /\ state' = STRUCTURED) =>
          /\ lastChange'.type = "TICK" => state = NUDGE
          /\ ctx'.turnOrder = ctx.speakers
          /\ ctx'.speakers = ctx.speakers
          /\ ctx'.turnIndex = 0
          /\ ctx'.activeSpeaker = IF Len(ctx.speakers) > 0 THEN ctx.speakers[1] ELSE NoSpeaker
          /\ ctx'.turnSince = ctx'.totalSeconds
          /\ ctx'.stateSince = ctx'.totalSeconds
          /\ ctx'.currentMonologueSeconds = 0]_vars

\* a round was forced with autoMode off while the second speaker was talking
C21_Witness ==
    /\ state = STRUCTURED
    /\ lastChange.type = "FORCE_STATE"
    /\ ~ctx.autoMode
    /\ ctx.turnOrder = <<"A", "B">>
    /\ ctx.activeSpeaker = "A"
    /\ TalkOf(ctx.talkTime, "B") > 0
    /\ ctx.turnSince = ctx.totalSeconds

\* C22: FORCE_STATE(p) when p is the current phase leaves the phase and every
\* context field unchanged.
C22_ForceSameIgnored ==
    [][\A p \in DiscussionState :
          (state = p /\ ForceState(p)) => UNCHANGED <<state, ctx>>]_vars

\* FORCE_STATE(MONITORING) was sent in MONITORING some time after its start,
\* while a speaker had the floor
C22_Witness ==
    /\ ignored = "FORCE_STATE"
    /\ state = MONITORING
    /\ ctx.activeSpeaker # NoSpeaker
    /\ ctx.totalSeconds > ctx.stateSince

\* the context after the first part of TICK(dt), before any autonomous advance,
\* as C23 states it
CreditsFloor(c, d, dt) ==
    IF c.activeSpeaker # NoSpeaker
    THEN /\ TalkOf(d.talkTime, c.activeSpeaker) = TalkOf(c.talkTime, c.activeSpeaker) + dt
         /\ d.totalTalkTime = c.totalTalkTime + dt
         /\ d.currentMonologueSeconds = c.currentMonologueSeconds + dt
         /\ d.silenceSeconds = 0
         /\ \A s \in (DOMAIN c.talkTime) \ {c.activeSpeaker} :
                HasKey(d.talkTime, s) /\ d.talkTime[s] = c.talkTime[s]
    ELSE /\ d.silenceSeconds = c.silenceSeconds + dt
         /\ d.currentMonologueSeconds = 0
         /\ d.talkTime = c.talkTime

\* C23: whenever activeSpeaker is non-null, TICK(s), before any autonomous advance,
\* adds s to talkTime[activeSpeaker], to totalTalkTime and to
\* currentMonologueSeconds and sets silenceSeconds to 0, leaving the other talk
\* times unchanged; whenever it is null it adds s to silenceSeconds, sets
\* currentMonologueSeconds to 0 and changes no talk time.
C23_TickCreditsFloor ==
    [][\A dt \in TickSeconds :
          (Tick(dt) /\ state' = state /\ ctx'.turnIndex = ctx.turnIndex)
              => CreditsFloor(ctx, ctx', dt)]_vars

\* all speakers of context c have the same talk time
Tied(c) ==
    \A i, j \in 1..Len(c.speakers) :
        TalkOf(c.talkTime, c.speakers[i]) = TalkOf(c.talkTime, c.speakers[j])

\* C24: for a non-empty speaker list with non-negative talk times whose sum is
\* totalTalkTime > 0 the score is 0 exactly when all speakers are tied and is
\* otherwise strictly between 0 and 1; for an empty list or totalTalkTime <= 0
\* it is 0.
C24_ScoreRange ==
    LET score == calculateDominance(ctx.talkTime, ctx.speakers, ctx.totalTalkTime)
    IN /\ ctx.dominanceScore = score
       /\ ctx.totalTalkTime = SpeakerTalkSum(ctx)
       /\ IF Len(ctx.speakers) = 0 \/ ctx.totalTalkTime <= 0
          THEN score = ZeroScore
          ELSE /\ score = ZeroScore <=> Tied(ctx)
               /\ score.num >= 0
               /\ score.den > 0
               /\ score.num < score.den

\* one of three speakers has all the talk time: the score is 2/3
C24_Witness ==
    /\ Len(ctx.speakers) = 3
    /\ ctx.totalTalkTime = 30
    /\ TalkOf(ctx.talkTime, "B") = 30
    /\ ctx.dominanceScore.num * 3 = ctx.dominanceScore.den * 2

\* the canned tip of a phase other than MONITORING
FixedTip(st) ==
    CASE st = IMBALANCE -> IMBALANCE_TEXT
      [] st = NUDGE -> NUDGE_TEXT
      [] st = STRUCTURED -> STRUCTURED_TEXT
      [] st = PAUSE -> PAUSE_TEXT
      [] st = CHECKIN -> CHECKIN_TEXT

\* C25: getModerationTip never rejects and never changes the context it is
\* given; for IMBALANCE, NUDGE, STRUCTURED, PAUSE and CHECKIN it returns the
\* phase's fixed string without calling the upstream service, and for MONITORING
\* every upstream failure, a 429 rate limit included, becomes a fixed fallback
\* string.
C25_TipNeverFails ==
    [][TipStep =>
          /\ UNCHANGED <<state, ctx>>
          /\ tipOut'.kind # "rejected"
          /\ \A call \in tipCalls' : call.state = MONITORING
          /\ (tipOut' # tipOut /\ tipOut'.state # MONITORING) =>
                 /\ tipOut'.text = FixedTip(tipOut'.state)
                 /\ ~tipOut'.upstream
          /\ (tipOut' # tipOut /\ tipOut'.error.thrown) =>
                 /\ tipOut'.state = MONITORING
                 /\ tipOut'.text \in {FallbackTip, RateLimitTip}
                 /\ tipOut'.error.status = 429 => tipOut'.text = RateLimitTip]_vars

\* an upstream failure that is not a rate limit was turned into the fallback
C25_Witness ==
    /\ tipOut.kind = "resolved"
    /\ tipOut.error.thrown
    /\ tipOut.error.status # 429
    /\ ~Includes429(tipOut.error.message)
    /\ tipOut.text = FallbackTip
    /\ state # MONITORING

\* C26: in every reachable state imbalanceSince is non-null exactly when the
\* phase is MONITORING and imbalanceFlag is true, whichever event changed the
\* flag and whatever autoMode is.
C26_TimerFollowsFlag ==
    ctx.imbalanceSince # NullTime <=> (state = MONITORING /\ ctx.imbalanceFlag)

\* C27: in every reachable state activeSpeaker = null implies
\* currentMonologueSeconds = 0, so that no imbalance flag is raised by a
\* monologue while nobody holds the floor.
C27_SilentFloorNoMonologue ==
    ctx.activeSpeaker = NoSpeaker => ctx.currentMonologueSeconds = 0

\* seconds since the current phase was entered
PhaseElapsed(c) == c.totalSeconds - c.stateSince

\* in a round that has lasted e seconds the speakers before the current turn
\* have talked for 60 s, the current one for the rest, the later ones not at all
RoundShape(c) ==
    LET e == PhaseElapsed(c)
        n == Len(c.turnOrder)
    IN /\ e < 60 * n
       /\ c.turnIndex = e \div 60
       /\ c.activeSpeaker = At(c.turnOrder, c.turnIndex)
       /\ \A i \in 0 .. (n - 1) :
              TalkOf(c.talkTime, At(c.turnOrder, i)) =
                  IF i < c.turnIndex THEN 60
                  ELSE IF i = c.turnIndex THEN e % 60 ELSE 0

\* C28: with autoMode on and only TICK{1} events after a round of n >= 1 speakers
\* is entered at time t0, the speakers hold the floor in turnOrder order, each
\* one's talk time grows by exactly 60, and the phase becomes PAUSE exactly on the
\* tick reaching t0 + 60*n.
C28_TimedRound ==
    [][state = STRUCTURED =>
          /\ RoundShape(ctx)
          /\ IF ctx'.totalSeconds = ctx.stateSince + 60 * Len(ctx.turnOrder)
             THEN /\ state' = PAUSE
                  /\ \A i \in 1 .. Len(ctx.turnOrder) :
                         TalkOf(ctx'.talkTime, ctx.turnOrder[i]) = 60
             ELSE state' = STRUCTURED /\ RoundShape(ctx')]_vars

\* a round of three entered at time 2 has ended at time 182
C28_Witness ==
    /\ state = PAUSE
    /\ lastChange = [type |-> "TICK", from |-> STRUCTURED]
    /\ Len(ctx.turnOrder) = 3
    /\ ctx.totalTalkTime = 180
    /\ ctx.stateSince = 182
    /\ ctx.totalSeconds = 182

\* C29: with autoMode on and only TICK{1} events, PAUSE entered at time t changes
\* to CHECKIN exactly on the tick reaching t + 20, and CHECKIN entered at time t'
\* changes to MONITORING exactly on the tick reaching t' + 20.
C29_PauseAndCheckinHolds ==
    [][/\ state = PAUSE =>
             /\ PhaseElapsed(ctx) < 20
             /\ IF ctx'.totalSeconds = ctx.stateSince + 20
                THEN state' = CHECKIN /\ ctx'.stateSince = ctx'.totalSeconds
                ELSE state' = PAUSE
       /\ state = CHECKIN =>
             /\ PhaseElapsed(ctx) < 20
             /\ IF ctx.totalSeconds + 1 = ctx.stateSince + 20
                THEN state' = MONITORING
                ELSE state' = CHECKIN]_vars

\* the 20 s of PAUSE and 19 s of CHECKIN have passed in silence
C29_Witness ==
    /\ state = CHECKIN
    /\ lastChange = [type |-> "TICK", from |-> PAUSE]
    /\ PhaseElapsed(ctx) = 19
    /\ ctx.silenceSeconds = 39

\* C30: while quietMode is true no TICK moves the phase from MONITORING to
\* IMBALANCE, and imbalanceSince is null after every TICK processed in MONITORING
\* with autoMode true.
C30_QuietModeNoEscalation ==
    [][\A dt \in TickSeconds :
          (ctx.quietMode /\ state = MONITORING /\ Tick(dt)) =>
              /\ state' = MONITORING
              /\ ctx.autoMode => ctx'.imbalanceSince = NullTime]_vars

\* quiet mode was switched on with the imbalance timer running, and a TICK
\* has since found a dominance score and a monologue above their limits
C30_Witness ==
    /\ ctx.quietMode
    /\ ctx.autoMode
    /\ state = MONITORING
    /\ ctx.totalSeconds >= 30
    /\ ctx.currentMonologueSeconds >= 30
    /\ ScoreAtLeast(ctx.dominanceScore, ctx.imbalanceScoreThreshold)
    /\ ctx.imbalanceSince = NullTime

\* the phase after st in the cycle MONITORING, IMBALANCE, NUDGE, STRUCTURED,
\* PAUSE, CHECKIN, MONITORING
NextPhase(st) ==
    CASE st = MONITORING -> IMBALANCE
      [] st = IMBALANCE -> NUDGE
      [] st = NUDGE -> STRUCTURED
      [] st = STRUCTURED -> PAUSE
      [] st = PAUSE -> CHECKIN
      [] st = CHECKIN -> MONITORING

\* no element of seq occurs twice
NoDuplicates(seq) == \A i, j \in 1..Len(seq) : seq[i] = seq[j] => i = j

\* C31: ADD_SPEAKER of a name already in speakers changes neither the phase nor
\* any field of the context; ADD_SPEAKER of a new name appends it at the end of
\* speakers with talk time 0 and leaves the other talk times alone; speakers
\* never holds a name twice.
C31_AddSpeakerIdempotent ==
    [][/\ NoDuplicates(ctx'.speakers)
       /\ \A name \in Names :
             AddSpeaker(name) =>
                 /\ state' = state
                 /\ IF Includes(ctx.speakers, name)
                    THEN ctx' = ctx
                    ELSE /\ ctx'.speakers = Append(ctx.speakers, name)
                         /\ HasKey(ctx'.talkTime, name)
                         /\ ctx'.talkTime[name] = 0
                         /\ \A s \in SeqSet(ctx.speakers) :
                               ctx'.talkTime[s] = ctx.talkTime[s]]_vars

\* A joined at the end of the list with no talk time, next to B who has some
C31_Witness ==
    /\ ctx.speakers = <<"B", "A">>
    /\ TalkOf(ctx.talkTime, "B") > 0
    /\ HasKey(ctx.talkTime, "A")
    /\ ctx.talkTime["A"] = 0
    /\ lastChange.type = "none"

C33_NonNegative ==
    /\ \A s \in DOMAIN ctx.talkTime : ctx.talkTime[s] >= 0
    /\ ctx.totalTalkTime >= 0
    /\ ctx.silenceSeconds >= 0
    /\ ctx.currentMonologueSeconds >= 0

\* time has passed with nobody talking and without a phase change, and the
\* silence counter is at zero: a SET_SILENCE with negative seconds put it there
C33_Witness ==
    /\ ctx.totalSeconds > 0
    /\ ctx.totalTalkTime = 0
    /\ \A s \in DOMAIN ctx.talkTime : ctx.talkTime[s] = 0
    /\ ctx.activeSpeaker = NoSpeaker
    /\ lastChange.type = "none"
    /\ ctx.silenceSeconds = 0

\* C34: a phase change that FORCE_STATE did not cause goes to the next phase of
\* the cycle.
C34_CycleOrder ==
    [][(state' # state /\ lastChange'.type # "FORCE_STATE") =>
           state' = NextPhase(state)]_vars

\* a NEXT_TURN in the last turn of a round has ended the round
C34_Witness ==
    /\ state = PAUSE
    /\ lastChange = [type |-> "NEXT_TURN", from |-> STRUCTURED]
    /\ ctx.turnIndex = Len(ctx.turnOrder)
    /\ Len(ctx.turnOrder) = 2

\* C35: with autoMode true and TICK events that keep arriving, the engine
\* re-enters MONITORING from every state whose phase is not MONITORING.
C35_BackToMonitoring == (state # MONITORING) ~> (state = MONITORING)

\* the round the engine is in, or is on its way to, has nobody in it
EmptyRound ==
    \/ state = STRUCTURED /\ Len(ctx.turnOrder) = 0
    \/ state \in {IMBALANCE, NUDGE} /\ Len(ctx.speakers) = 0

\* only TICK events arrive until MONITORING is entered: the clock has started,
\* or no other event is left in the run
OnlyTicks == ctx.totalSeconds > 0 \/ events = MaxLiveEvents

\* C35 (amended): with autoMode true and only TICK events arriving, the engine
\* re-enters MONITORING from every state outside MONITORING unless the round it
\* is in or on its way to is empty.
C35_BackUnlessEmptyRound ==
    (state # MONITORING /\ OnlyTicks /\ ~EmptyRound) ~> (state = MONITORING)

\* TICK events have taken the engine through a round of two turns, PAUSE and
\* CHECKIN and back into MONITORING
C35_Witness ==
    /\ state = MONITORING
    /\ lastChange = [type |-> "TICK", from |-> CHECKIN]
    /\ roundHeld = {0, 1}
    /\ ctx.turnIndex = 2

\* a TICK moved the engine by one step at most: the phase is kept or is the
\* next of the cycle, and a round that goes on has kept its turn or has given
\* the floor to the next speaker of turnOrder
OneStep ==
    /\ state' \in {state, NextPhase(state)}
    /\ (state = STRUCTURED /\ state' = STRUCTURED) =>
          \/ ctx'.turnIndex = ctx.turnIndex /\ ctx'.activeSpeaker = ctx.activeSpeaker
          \/ /\ ctx'.turnIndex = ctx.turnIndex + 1
             /\ ctx'.activeSpeaker = At(ctx.turnOrder, ctx.turnIndex + 1)
    /\ (state = STRUCTURED /\ state' # STRUCTURED) =>
          ctx.turnIndex + 1 >= Len(ctx.turnOrder)

\* the speaker holding the floor has dt more seconds and nobody else's changed
CreditedTo(s, dt) ==
    /\ DOMAIN ctx'.talkTime = DOMAIN ctx.talkTime
    /\ \A k \in DOMAIN ctx.talkTime :
          ctx'.talkTime[k] = ctx.talkTime[k] + (IF k = s THEN dt ELSE 0)

\* C36: a TICK of any size causes at most one phase transition or one turn
\* advance, and all its seconds are on the talk time of the speaker who held
\* the floor before it.
C36_OneStepPerTick ==
    [][\A dt \in BurstTicks :
          Tick(dt) =>
              /\ OneStep
              /\ Includes(ctx.speakers, ctx.activeSpeaker) =>
                     CreditedTo(ctx.activeSpeaker, dt)]_vars

\* C36 (amended): the same, except that the TICK that ends CHECKIN leaves every
\* talk time at 0.
C36_OneStepPerTickUnlessReset ==
    [][\A dt \in BurstTicks :
          Tick(dt) =>
              /\ OneStep
              /\ Includes(ctx.speakers, ctx.activeSpeaker) =>
                     IF state = CHECKIN /\ state' = MONITORING
                     THEN \A k \in DOMAIN ctx'.talkTime : ctx'.talkTime[k] = 0
                     ELSE CreditedTo(ctx.activeSpeaker, dt)]_vars

\* a TICK of 150 seconds in the first turn of a round: the first speaker has all
\* of them and the floor is with the second speaker, not the third
C36_Witness ==
    /\ state = STRUCTURED
    /\ ctx.totalSeconds = 150
    /\ ctx.turnIndex = 1
    /\ ctx.activeSpeaker = "B"
    /\ ctx.talkTime = [k \in RoundNames |-> IF k = "A" THEN 150 ELSE 0]

\* C37: a TICK moves the engine from MONITORING to IMBALANCE only when
\* totalSeconds, which counts from construction or from the last reset, has
\* reached the grace period plus imbalanceHoldSeconds; and imbalanceSince, when
\* it is not null, is at least the grace period.
C37_NoEarlyEscalation ==
    [][/\ ctx'.imbalanceSince # NullTime => ctx'.imbalanceSince >= GraceSeconds
       /\ (state = MONITORING /\ state' = IMBALANCE /\ lastChange'.type = "TICK") =>
             ctx'.totalSeconds >= GraceSeconds + ctx.imbalanceHoldSeconds]_vars

\* the engine escalated at the earliest moment, 30 seconds in
C37_Witness ==
    /\ state = IMBALANCE
    /\ lastChange = [type |-> "TICK", from |-> MONITORING]
    /\ ctx.stateSince = GraceSeconds + ctx.imbalanceHoldSeconds
    /\ ctx.totalSeconds = ctx.stateSince

\* C38: while the phase stays STRUCTURED no event changes turnOrder.
C38_TurnOrderFixed ==
    [][(state = STRUCTURED /\ state' = STRUCTURED) => ctx'.turnOrder = ctx.turnOrder]_vars

\* a speaker left and another joined during a round, and the round still has
\* the order it started with
C38_Witness ==
    /\ state = STRUCTURED
    /\ ctx.turnOrder = <<"A", "B">>
    /\ ctx.speakers = <<"B", "A">>

\* C39: a name that REMOVE_SPEAKER removed does not hold the floor again until
\* a SPEAKER_SET or an ADD_SPEAKER names it.
C39_RemovedNeverActive == ctx.activeSpeaker \notin removed

\* the effect has run for the phase and speaker count of the engine, no timer
\* is pending and no getModerationTip call is waiting
TipSettled ==
    /\ ui.deps = stateKey(state, ctx)
    /\ ui.fetchTipDebounced = NoKey
    /\ tipCalls = {}

\* C40: once the tip effect has settled with at least one speaker present,
\* the tip shown is the one fetched for the current phase and speaker count.
C40_TipIsCurrent ==
    (TipSettled /\ Len(ctx.speakers) > 0) =>
        ui.moderationTip.key = stateKey(state, ctx)

====
